---------------------------- MODULE Spec2Model ----------------------------
(***************************************************************************)
(* The cat of cat-yarn-game/game.js (class CatYarnGame, the one the page   *)
(* instantiates): the per-frame update, the pounce trajectory callback,    *)
(* the rest/fatigue cycle, feeding, the demo override and the input        *)
(* handlers, as one state machine.                                         *)
(*                                                                         *)
(* Numbers.  The code computes in floating point.  Here every length is a  *)
(* whole number of 1/Scale pixels and every speed a whole number of        *)
(* 1/Scale pixels per frame; a product with a fraction is truncated        *)
(* toward zero (Fix).  Comparisons of a distance with a threshold are      *)
(* made on the squares, which is exact.                                    *)
(*                                                                         *)
(* Time.  The code compares Date.now() with recorded timestamps and only   *)
(* ever uses the differences.  The present instant is therefore the time   *)
(* origin (now = 0), a recorded timestamp is kept relative to it (it is    *)
(* minus its age, in ms) and every display refresh moves the present      *)
(* forward by Step ms.  A timestamp older than every threshold it is       *)
(* compared with stays at that horizon.  A pending setTimeout is the       *)
(* delay left until it is due; it runs before the refresh that follows.    *)
(*                                                                         *)
(* Chance.  Math.random() is a number of thousandths drawn from Randoms.   *)
(*                                                                         *)
(* Environment.  The player steers the ball with the pointer between two   *)
(* points and holds it out to the cat's nose as soon as the nose reaches   *)
(* the other point; the hand tracker reports no hand or an open hand.      *)
(* Clicks and hand-tracking results come at any moment between two         *)
(* refreshes, up to MaxClicks and MaxHandResults of them in a run.         *)
(*                                                                         *)
(* Spec is the whole game under that environment.  The further             *)
(* specifications keep the same handlers and narrow or widen the           *)
(* environment for one concern each: SpecDemo (the demo panel), SpecInput  *)
(* (input samples of both sources), SpecCamera (a pointing hand that is    *)
(* lost), SpecBoundary (the ball wobbling across the pounce distance),     *)
(* SpecApproach (the chase from a standing start), SpecArc (refreshes at   *)
(* other gaps), SpecNose (the ball held at the nose of the leaping cat),   *)
(* SpecMeal (the demo panel clicked during a meal), SpecCentre (the ball   *)
(* or the food put on the cat's centre), SpecClock (the system clock set   *)
(* back during a pounce), SpecSpeed (calculateChaseSpeed over its inputs), *)
(* SpecFood (a hand that opens and closes) and SpecApproachFair            *)
(* (SpecApproach with the display refreshing for ever).                    *)
(***************************************************************************)
EXTENDS Integers, Sequences, FiniteSets, TLC

---------------------------------------------------------------------------
(* Bounds of the model *)

\* fixed-point resolution: units per pixel
Scale == 10
\* the time from one display refresh to the next, in ms
Step == 250
\* window.innerWidth and window.innerHeight, in pixels
innerWidth == 600
innerHeight == 400
\* registered captures explored in one run
MaxCaptures == 7
\* a pointer sample older than this is as old as this (ms)
MouseHorizon == 250
\* clicks (control mode, demo panel, outside) explored in one run
MaxClicks == 2
\* the resolution of Math.random(): it is a whole number of 1/Thousandths
Thousandths == 1000
\* hand-tracking results explored in one run
MaxHandResults == 1
\* hand-tracking results explored in one run of input samples alone
MaxHandSamples == 3
\* accepted input samples are counted up to this
MaxAccepted == 12
\* demo-panel and outside clicks, and captures, explored in one run of the
\* demo override
MaxDemoClicks == 3
MaxDemoCaptures == 1
\* captures explored in one run of the hand steering the ball
MaxCameraCaptures == 1
\* control-mode switches and hand-tracking results explored in such a run
MaxCameraSwitches == 1
MaxCameraSamples == 2
\* the times from one display refresh to the next, in ms, and the
\* captures, explored in one run of the pounce arc
ShortGap == 150
LongGap == 300
MaxArcCaptures == 5

\* how far the clock is set back, and the captures explored with it
Setback == 500
MaxClockCaptures == 4

\* the pointer speeds (px per frame) and the spacing of the centre
\* distances (px) for which the chase speed is computed
MaxInputSpeed == 40
DistanceGrain == 50

\* captures, control-mode switches and hand-tracking results explored in
\* one run of feeding
MaxFoodCaptures == 1
MaxFoodSwitches == 1
MaxFoodSamples == 4

---------------------------------------------------------------------------
(* Program constants *)

maxTrailLength == 10
pounceDistance == 80
pounceTriggerDistance == 25
pounceCooldown == 500
restDuration == 3000
eatingDuration == 2000
catchDistance == 25
pounceDuration == 600
peakHeight == 80
baseSpeed == 7
foodSpawnDelay == 3000
countdownDelay == 200
demoReplayDelay == 1500

\* Date.now(): the present instant is the origin of time
now == 0

PounceHorizon == pounceDuration + Step
RestHorizon == restDuration + Step

\* a field that holds no timestamp, no position, no food, no timer
NoTime == now + 1
NoPos == [x |-> -1, y |-> -1]
NoFood == [x |-> -1, y |-> -1]
Null == "null"

---------------------------------------------------------------------------
(* Arithmetic *)

Abs(n) == IF n < 0 THEN -n ELSE n
Min(a, b) == IF a < b THEN a ELSE b
Max(a, b) == IF a > b THEN a ELSE b
Sq(n) == n * n
Px(n) == n * Scale

\* n / d truncated toward zero (d > 0)
Fix(n, d) == IF n >= 0 THEN n \div d ELSE -((-n) \div d)

\* (a value that is used more than once is bound by a quantifier over a
\* one-element set, so that it is computed once wherever it is evaluated)
RECURSIVE SqrtSearch(_, _, _)
SqrtSearch(n, lo, hi) ==
    IF lo >= hi THEN lo
    ELSE CHOOSE r \in {IF mid * mid <= n THEN SqrtSearch(n, mid, hi)
                                         ELSE SqrtSearch(n, lo, mid - 1) :
                       mid \in {(lo + hi + 1) \div 2}} : TRUE

\* Math.sqrt, rounded down to the resolution
Sqrt(n) == CHOOSE r \in {SqrtSearch(v, 0, Min(v, 40000)) : v \in {n}} : TRUE

Pos(a, b) == [x |-> a, y |-> b]
DistSq(dx, dy) == dx * dx + dy * dy

\* a timestamp once ms more milliseconds have passed, kept down to -horizon
Older(t, ms, horizon) == IF t = NoTime THEN NoTime ELSE Max(t - ms, -horizon)
\* the delay left of a pending timeout once ms more milliseconds have passed
Nearer(due, ms) == Max(due - ms, 0)

States == {"idle", "curious", "running", "excited", "preparing-pounce",
           "pouncing", "resting", "eating"}

\* the states the demo panel's buttons carry
DemoStates == {"idle", "curious", "running", "excited", "pouncing", "resting"}

\* the values Math.random() takes: the least and the greatest
Randoms == {0, Thousandths - 1}

\* Math.floor(r * n) for r a value of Math.random()
floorRandom(r, n) == (r * n) \div Thousandths

\* the rest thresholds the constructor and the end of a rest draw
firstThreshold(r) == 6 + floorRandom(r, 5)
nextThreshold(r) == 4 + floorRandom(r, 4)

---------------------------------------------------------------------------
(* The state: the fields of the CatYarnGame object (this), the callbacks   *)
(* the browser holds for it, and what an observer records of a run         *)

VARIABLES
    \* cat
    catPos, catVelocity, catSpeed, catState,
    \* yarn ball and pointer
    yarnPos, prevYarnPos, trailPositions, mouseSpeed, lastMousePos, lastMouseTime,
    \* control source
    controlMode, camera, isOpenHand, smoothedFingerPos,
    \* pounce and rest
    pounceCount, totalPounces, maxPouncesBeforeRest, isPouncing, isResting,
    lastPounceTime, restStartTime, preparingPounce,
    \* feeding
    currentFood, isEating, foodSpawnCooldown,
    \* demo override
    demoMode, demoState, demoTimeout, savedCatPos,
    \* pending requestAnimationFrame(animatePounce) closures, in request order
    pounceAnims,
    \* pending setTimeout callbacks: the delay left of each, in creation order
    eatTimers, cooldownTimers, restTimers, demoTimers,
    \* observations of the run
    lastCapture, obs, noted,
    \* the clicks and the hand-tracking results there have been
    clicks, handResults

vars == <<catPos, catVelocity, catSpeed, catState,
          yarnPos, prevYarnPos, trailPositions, mouseSpeed, lastMousePos, lastMouseTime,
          controlMode, camera, isOpenHand, smoothedFingerPos,
          pounceCount, totalPounces, maxPouncesBeforeRest, isPouncing, isResting,
          lastPounceTime, restStartTime, preparingPounce,
          currentFood, isEating, foodSpawnCooldown,
          demoMode, demoState, demoTimeout, savedCatPos,
          pounceAnims, eatTimers, cooldownTimers, restTimers, demoTimers,
          lastCapture, obs, noted, clicks, handResults>>

\* the object the methods work on
This ==
    [catPos |-> catPos, catVelocity |-> catVelocity, catSpeed |-> catSpeed,
     catState |-> catState,
     yarnPos |-> yarnPos, prevYarnPos |-> prevYarnPos,
     trailPositions |-> trailPositions, mouseSpeed |-> mouseSpeed,
     lastMousePos |-> lastMousePos, lastMouseTime |-> lastMouseTime,
     controlMode |-> controlMode, camera |-> camera, isOpenHand |-> isOpenHand,
     smoothedFingerPos |-> smoothedFingerPos,
     pounceCount |-> pounceCount, totalPounces |-> totalPounces,
     maxPouncesBeforeRest |-> maxPouncesBeforeRest,
     isPouncing |-> isPouncing, isResting |-> isResting,
     lastPounceTime |-> lastPounceTime, restStartTime |-> restStartTime,
     preparingPounce |-> preparingPounce,
     currentFood |-> currentFood, isEating |-> isEating,
     foodSpawnCooldown |-> foodSpawnCooldown,
     demoMode |-> demoMode, demoState |-> demoState,
     demoTimeout |-> demoTimeout, savedCatPos |-> savedCatPos,
     pounceAnims |-> pounceAnims,
     eatTimers |-> eatTimers, cooldownTimers |-> cooldownTimers,
     restTimers |-> restTimers, demoTimers |-> demoTimers,
     lastCapture |-> lastCapture,
     obs |-> obs, noted |-> noted]

\* the object is g now
Is(g) ==
    /\ catPos = g.catPos /\ catVelocity = g.catVelocity
    /\ catSpeed = g.catSpeed /\ catState = g.catState
    /\ yarnPos = g.yarnPos /\ prevYarnPos = g.prevYarnPos
    /\ trailPositions = g.trailPositions /\ mouseSpeed = g.mouseSpeed
    /\ lastMousePos = g.lastMousePos /\ lastMouseTime = g.lastMouseTime
    /\ controlMode = g.controlMode /\ camera = g.camera
    /\ isOpenHand = g.isOpenHand /\ smoothedFingerPos = g.smoothedFingerPos
    /\ pounceCount = g.pounceCount /\ totalPounces = g.totalPounces
    /\ maxPouncesBeforeRest = g.maxPouncesBeforeRest
    /\ isPouncing = g.isPouncing /\ isResting = g.isResting
    /\ lastPounceTime = g.lastPounceTime /\ restStartTime = g.restStartTime
    /\ preparingPounce = g.preparingPounce
    /\ currentFood = g.currentFood /\ isEating = g.isEating
    /\ foodSpawnCooldown = g.foodSpawnCooldown
    /\ demoMode = g.demoMode /\ demoState = g.demoState
    /\ demoTimeout = g.demoTimeout /\ savedCatPos = g.savedCatPos
    /\ pounceAnims = g.pounceAnims
    /\ eatTimers = g.eatTimers /\ cooldownTimers = g.cooldownTimers
    /\ restTimers = g.restTimers /\ demoTimers = g.demoTimers
    /\ lastCapture = g.lastCapture
    /\ obs = g.obs /\ noted = g.noted

\* the handler leaves the object as g
Becomes(g) ==
    /\ catPos' = g.catPos /\ catVelocity' = g.catVelocity
    /\ catSpeed' = g.catSpeed /\ catState' = g.catState
    /\ yarnPos' = g.yarnPos /\ prevYarnPos' = g.prevYarnPos
    /\ trailPositions' = g.trailPositions /\ mouseSpeed' = g.mouseSpeed
    /\ lastMousePos' = g.lastMousePos /\ lastMouseTime' = g.lastMouseTime
    /\ controlMode' = g.controlMode /\ camera' = g.camera
    /\ isOpenHand' = g.isOpenHand /\ smoothedFingerPos' = g.smoothedFingerPos
    /\ pounceCount' = g.pounceCount /\ totalPounces' = g.totalPounces
    /\ maxPouncesBeforeRest' = g.maxPouncesBeforeRest
    /\ isPouncing' = g.isPouncing /\ isResting' = g.isResting
    /\ lastPounceTime' = g.lastPounceTime /\ restStartTime' = g.restStartTime
    /\ preparingPounce' = g.preparingPounce
    /\ currentFood' = g.currentFood /\ isEating' = g.isEating
    /\ foodSpawnCooldown' = g.foodSpawnCooldown
    /\ demoMode' = g.demoMode /\ demoState' = g.demoState
    /\ demoTimeout' = g.demoTimeout /\ savedCatPos' = g.savedCatPos
    /\ pounceAnims' = g.pounceAnims
    /\ eatTimers' = g.eatTimers /\ cooldownTimers' = g.cooldownTimers
    /\ restTimers' = g.restTimers /\ demoTimers' = g.demoTimers
    /\ lastCapture' = g.lastCapture
    /\ obs' = g.obs /\ noted' = g.noted

---------------------------------------------------------------------------
(* Methods of the object.  g is the object a method is called on; the      *)
(* result is the object when the method returns.                           *)

\* setTimeout(callback, delay) on the list of pending callbacks of one kind:
\* the delay left; whether demo mode was entered since it was set; whether
\* it is the timeout this.demoTimeout names
SetTimeout(timers, delay) ==
    Append(timers, [due |-> delay, old |-> FALSE, named |-> FALSE])

updateRestingCountdown(g) ==
    IF ~g.isResting THEN g
    ELSE IF restDuration - (now - g.restStartTime) > 0
         THEN [g EXCEPT !.restTimers = SetTimeout(@, countdownDelay)]
         ELSE g

setCatState(g, state) ==
    LET g1 == [g EXCEPT !.catState = state,
                        !.obs.repeated = @ \/ g.catState = state]
    IN IF state = "resting" THEN updateRestingCountdown(g1) ELSE g1

startResting(g) ==
    setCatState([g EXCEPT !.isResting = TRUE,
                          !.restStartTime = now,
                          !.catVelocity = Pos(0, 0)], "resting")

\* calculateChaseSpeed without the cap
calculateChaseSpeedUncapped(g, distSq) ==
    IF g.isResting THEN 0
    ELSE LET s1 == IF g.mouseSpeed > Px(10)
                   THEN Px(baseSpeed) + Fix(g.mouseSpeed * 4, 10)
                   ELSE Px(baseSpeed)
         IN IF distSq < Sq(Px(150)) THEN Fix(s1 * 18, 10)
            ELSE IF distSq > Sq(Px(300)) THEN Fix(s1 * 9, 10)
            ELSE s1

calculateChaseSpeed(g, distSq) ==
    IF g.isResting THEN 0
    ELSE LET s1 == IF g.mouseSpeed > Px(10)
                   THEN Px(baseSpeed) + Fix(g.mouseSpeed * 4, 10)
                   ELSE Px(baseSpeed)
             s2 == IF distSq < Sq(Px(150)) THEN Fix(s1 * 18, 10)
                   ELSE IF distSq > Sq(Px(300)) THEN Fix(s1 * 9, 10)
                   ELSE s1
         IN Min(s2, Px(22))

updateCatState(g, distSq) ==
    IF g.isPouncing \/ g.isResting \/ g.preparingPounce THEN g
    ELSE LET newState ==
                 IF 2 * g.catSpeed < Px(1) THEN "idle"
                 ELSE IF g.catSpeed > Px(8) \/ g.mouseSpeed > Px(15) THEN "excited"
                 ELSE IF distSq < Sq(Px(100)) THEN "excited"
                 ELSE IF g.catSpeed > Px(2) THEN "running"
                 ELSE "curious"
         IN IF newState # g.catState THEN setCatState(g, newState) ELSE g

\* the closure animatePounce of one pounce: where it starts, where it lands,
\* when it started; overridden records whether a demo or control-mode
\* command was given since
Trajectory(start, target) ==
    [start |-> start, target |-> target, startTime |-> now, overridden |-> FALSE]

\* triggerPounce leaping 70 px however near the ball is
triggerPounceFullLeap(g, dx, dy) ==
    LET g1 == setCatState([g EXCEPT !.isPouncing = TRUE,
                                    !.preparingPounce = FALSE,
                                    !.lastPounceTime = now], "pouncing")
        startPos == g1.catPos
        distance == Sqrt(DistSq(dx, dy))
        target == Pos(startPos.x + Fix(dx * Px(70), distance),
                      startPos.y + Fix(dy * Px(70), distance))
    IN [g1 EXCEPT !.pounceAnims = Append(@, Trajectory(startPos, target))]

\* dx / distance with distance = 0 is not a number: the target is no position
triggerPounce(g, dx, dy) ==
    LET g1 == setCatState([g EXCEPT !.isPouncing = TRUE,
                                    !.preparingPounce = FALSE,
                                    !.lastPounceTime = now], "pouncing")
        startPos == g1.catPos
        distance == Sqrt(DistSq(dx, dy))
        leap == Min(Px(70), distance)
        target == IF distance = 0 THEN NoPos
                  ELSE Pos(startPos.x + Fix(dx * leap, distance),
                           startPos.y + Fix(dy * leap, distance))
    IN [g1 EXCEPT !.pounceAnims = Append(@, Trajectory(startPos, target)),
                  !.obs.dividedByZero = @ \/ distance = 0]

\* animatePounce with an arc half as high
animatePounceHalfArc(a) ==
    LET elapsed == now - a.startTime
        ms == Min(elapsed, pounceDuration)
        arcOffset == Fix(2 * Px(peakHeight) * ms * (pounceDuration - ms),
                         pounceDuration * pounceDuration)
    IN Pos(a.start.x + Fix((a.target.x - a.start.x) * ms, pounceDuration),
           a.start.y + Fix((a.target.y - a.start.y) * ms, pounceDuration) - arcOffset)

\* one call of the closure a: the position it writes
animatePounce(a) ==
    LET elapsed == now - a.startTime
        \* progress = Math.min(elapsed / pounceDuration, 1), as elapsed ms
        ms == Min(elapsed, pounceDuration)
        arcOffset == Fix(4 * Px(peakHeight) * ms * (pounceDuration - ms),
                         pounceDuration * pounceDuration)
    IN Pos(a.start.x + Fix((a.target.x - a.start.x) * ms, pounceDuration),
           a.start.y + Fix((a.target.y - a.start.y) * ms, pounceDuration) - arcOffset)

\* progress < 1: the closure requests another frame
Reschedules(a) == now - a.startTime < pounceDuration

startEating(g) ==
    IF g.currentFood = NoFood THEN g
    ELSE [setCatState(g, "eating") EXCEPT
              !.eatTimers = SetTimeout(@, eatingDuration)]

\* finishEating leaving the flag set
finishEatingKeepingFlag(g) ==
    setCatState([g EXCEPT !.currentFood = NoFood], "idle")

finishEating(g) ==
    setCatState([g EXCEPT !.currentFood = NoFood, !.isEating = FALSE], "idle")

\* spawnFood not held back by the cooldown
spawnFoodDespiteCooldown(g, x, y) ==
    IF g.currentFood # NoFood \/ g.isEating THEN g
    ELSE [g EXCEPT !.currentFood = Pos(x, y),
                   !.isEating = TRUE,
                   !.foodSpawnCooldown = TRUE,
                   !.cooldownTimers = SetTimeout(@, foodSpawnDelay)]

spawnFood(g, x, y) ==
    IF g.currentFood # NoFood \/ g.foodSpawnCooldown \/ g.isEating THEN g
    ELSE [g EXCEPT !.currentFood = Pos(x, y),
                   !.isEating = TRUE,
                   !.foodSpawnCooldown = TRUE,
                   !.cooldownTimers = SetTimeout(@, foodSpawnDelay)]

\* updateResting drawing the new threshold as the constructor does
updateRestingFirstRange(g, r) ==
    IF now - g.restStartTime > restDuration
    THEN setCatState([g EXCEPT !.isResting = FALSE,
                               !.pounceCount = 0,
                               !.maxPouncesBeforeRest = firstThreshold(r)], "curious")
    ELSE g

\* updateResting ending the rest at half its duration
updateRestingHalfTime(g, r) ==
    IF 2 * (now - g.restStartTime) > restDuration
    THEN setCatState([g EXCEPT !.isResting = FALSE,
                               !.pounceCount = 0,
                               !.maxPouncesBeforeRest = nextThreshold(r)], "curious")
    ELSE g

\* update(), the branch taken while resting; r is what Math.random() returns
\* updateResting starting the total from 0 as well
updateRestingClearingTotal(g, r) ==
    IF now - g.restStartTime > restDuration
    THEN setCatState([g EXCEPT !.isResting = FALSE,
                               !.pounceCount = 0,
                               !.totalPounces = 0,
                               !.maxPouncesBeforeRest = nextThreshold(r)], "curious")
    ELSE g

updateResting(g, r) ==
    IF now - g.restStartTime > restDuration
    THEN setCatState([g EXCEPT !.isResting = FALSE,
                               !.pounceCount = 0,
                               !.maxPouncesBeforeRest = nextThreshold(r)], "curious")
    ELSE g

\* update(), the branch taken while a food item is out
updateEating(g) ==
    LET foodDx == g.currentFood.x - g.catPos.x
        foodDy == g.currentFood.y - g.catPos.y
        foodDistSq == DistSq(foodDx, foodDy)
        foodDistance == Sqrt(foodDistSq)
    IN IF foodDistSq > Sq(Px(40))
       THEN setCatState(
                [g EXCEPT !.catPos = Pos(@.x + Fix(foodDx * Px(5), foodDistance),
                                         @.y + Fix(foodDy * Px(5), foodDistance)),
                          !.obs.writers = @ \cup {"eating"},
                          !.obs.dividedByZero = @ \/ foodDistance = 0], "running")
       ELSE IF g.catState # "eating" THEN startEating(g)
       ELSE g

\* updatePouncing resting only once the count has passed the threshold
updatePouncingPastThreshold(g) ==
    IF now - g.lastPounceTime > 600
    THEN LET g1 == [g EXCEPT !.isPouncing = FALSE, !.pounceCount = @ + 1]
         IN IF g1.pounceCount > g1.maxPouncesBeforeRest
            THEN startResting(g1)
            ELSE g1
    ELSE g

\* update(), the branch taken while pouncing
updatePouncing(g) ==
    IF now - g.lastPounceTime > 600
    THEN LET g1 == [g EXCEPT !.isPouncing = FALSE, !.pounceCount = @ + 1]
         IN IF g1.pounceCount >= g1.maxPouncesBeforeRest
            THEN startResting(g1)
            ELSE g1
    ELSE g

\* the square of the distance from the yarn ball to the cat's nose
NoseDistSq(cat, yarn) ==
    LET dx == yarn.x - cat.x
        noseX == cat.x + (IF dx > 0 THEN Px(35) ELSE -Px(35))
        noseY == cat.y - Px(15)
    IN DistSq(yarn.x - noseX, yarn.y - noseY)

\* the catch test measuring from the cat's centre instead of its nose
CaughtAtCentre(g) ==
    /\ DistSq(g.yarnPos.x - g.catPos.x, g.yarnPos.y - g.catPos.y)
           < Sq(Px(catchDistance))
    /\ now - g.lastPounceTime > pounceCooldown

\* the catch test of update()
Caught(g) ==
    /\ NoseDistSq(g.catPos, g.yarnPos) < Sq(Px(catchDistance))
    /\ now - g.lastPounceTime > pounceCooldown

\* a capture that is counted without the pounce being triggered
registerCaptureWithoutPounce(g) ==
    [g EXCEPT !.totalPounces = @ + 1, !.lastCapture = now]

\* update(), a registered capture
registerCapture(g) ==
    triggerPounce(
        [g EXCEPT !.totalPounces = @ + 1, !.lastCapture = now],
        g.yarnPos.x - g.catPos.x, g.yarnPos.y - g.catPos.y)

\* preparePounce setting the mode on every tick that finds the ball near
preparePounceEveryTick(g) ==
    LET noseDistSq == NoseDistSq(g.catPos, g.yarnPos)
    IN IF /\ noseDistSq < Sq(Px(pounceDistance))
          /\ noseDistSq >= Sq(Px(pounceTriggerDistance))
       THEN setCatState([g EXCEPT !.preparingPounce = TRUE], "preparing-pounce")
       ELSE IF noseDistSq >= Sq(Px(pounceDistance)) /\ g.preparingPounce
       THEN [g EXCEPT !.preparingPounce = FALSE]
       ELSE g

\* preparePounce clearing the flag at half the pounceDistance already
preparePounceClearingEarly(g) ==
    LET noseDistSq == NoseDistSq(g.catPos, g.yarnPos)
    IN IF /\ noseDistSq < Sq(Px(pounceDistance))
          /\ noseDistSq >= Sq(Px(pounceTriggerDistance))
          /\ ~g.preparingPounce
       THEN setCatState([g EXCEPT !.preparingPounce = TRUE], "preparing-pounce")
       ELSE IF 4 * noseDistSq >= Sq(Px(pounceDistance)) /\ g.preparingPounce
       THEN [g EXCEPT !.preparingPounce = FALSE]
       ELSE g

\* update(), "Prepare to pounce when getting close"
preparePounce(g) ==
    LET noseDistSq == NoseDistSq(g.catPos, g.yarnPos)
    IN IF /\ noseDistSq < Sq(Px(pounceDistance))
          /\ noseDistSq >= Sq(Px(pounceTriggerDistance))
          /\ ~g.preparingPounce
       THEN setCatState([g EXCEPT !.preparingPounce = TRUE], "preparing-pounce")
       ELSE IF noseDistSq >= Sq(Px(pounceDistance)) /\ g.preparingPounce
       THEN [g EXCEPT !.preparingPounce = FALSE]
       ELSE g

\* steer without the stop radius: the cat moves however near the ball is
steerWithoutStopRadius(g) ==
    LET dx == g.yarnPos.x - g.catPos.x
        dy == g.yarnPos.y - g.catPos.y
        distSq == DistSq(dx, dy)
        distance == Sqrt(distSq)
        chaseSpeed == calculateChaseSpeed(g, distSq)
        v == IF distSq > 0
             THEN Pos(g.catVelocity.x
                        + Fix(Fix(dx * chaseSpeed, distance) - g.catVelocity.x, 10),
                      g.catVelocity.y
                        + Fix(Fix(dy * chaseSpeed, distance) - g.catVelocity.y, 10))
             ELSE Pos(Fix(g.catVelocity.x * 9, 10), Fix(g.catVelocity.y * 9, 10))
        p == IF distSq > 0
             THEN Pos(g.catPos.x + v.x, g.catPos.y + v.y)
             ELSE g.catPos
    IN [g EXCEPT !.catVelocity = v,
                 !.catPos = p,
                 !.catSpeed = Sqrt(DistSq(v.x, v.y)),
                 !.obs.writers = IF distSq > 0 THEN @ \cup {"steering"} ELSE @]

\* steer normalising the direction however near the ball is; with the ball
\* at the cat's centre the direction is not a number and the cat is left
\* where it is
steerNormalisingAlways(g) ==
    LET dx == g.yarnPos.x - g.catPos.x
        dy == g.yarnPos.y - g.catPos.y
        distSq == DistSq(dx, dy)
        distance == Sqrt(distSq)
        chaseSpeed == calculateChaseSpeed(g, distSq)
        v == IF distance > 0
             THEN Pos(g.catVelocity.x
                        + Fix(Fix(dx * chaseSpeed, distance) - g.catVelocity.x, 10),
                      g.catVelocity.y
                        + Fix(Fix(dy * chaseSpeed, distance) - g.catVelocity.y, 10))
             ELSE g.catVelocity
    IN [g EXCEPT !.catVelocity = v,
                 !.catPos = Pos(g.catPos.x + v.x, g.catPos.y + v.y),
                 !.catSpeed = Sqrt(DistSq(v.x, v.y)),
                 !.obs.writers = @ \cup {"steering"},
                 !.obs.dividedByZero = @ \/ distance = 0]

\* update(), "Cat AI - chase the yarn with some smoothing"
steer(g) ==
    LET dx == g.yarnPos.x - g.catPos.x
        dy == g.yarnPos.y - g.catPos.y
        distSq == DistSq(dx, dy)
        distance == Sqrt(distSq)
        chaseSpeed == calculateChaseSpeed(g, distSq)
        v == IF distSq > Sq(Px(30))
             THEN Pos(g.catVelocity.x
                        + Fix(Fix(dx * chaseSpeed, distance) - g.catVelocity.x, 10),
                      g.catVelocity.y
                        + Fix(Fix(dy * chaseSpeed, distance) - g.catVelocity.y, 10))
             ELSE Pos(Fix(g.catVelocity.x * 9, 10), Fix(g.catVelocity.y * 9, 10))
        p == IF distSq > Sq(Px(30))
             THEN Pos(g.catPos.x + v.x, g.catPos.y + v.y)
             ELSE g.catPos
    IN [g EXCEPT !.catVelocity = v,
                 !.catPos = p,
                 !.catSpeed = Sqrt(DistSq(v.x, v.y)),
                 !.obs.writers = IF distSq > Sq(Px(30)) THEN @ \cup {"steering"}
                                                        ELSE @,
                 !.obs.dividedByZero = @ \/ (distSq > Sq(Px(30)) /\ distance = 0)]

\* update(), "Keep cat within bounds"
keepWithinBounds(g) ==
    [g EXCEPT !.catPos =
        Pos(Max(Px(70), Min(Px(innerWidth) - Px(70), @.x)),
            Max(Px(120), Min(Px(innerHeight) - Px(120), @.y)))]

\* update(), from the nose distance on
updateChase(g) ==
    IF Caught(g) THEN registerCapture(g)
    ELSE LET distSq == DistSq(g.yarnPos.x - g.catPos.x, g.yarnPos.y - g.catPos.y)
             Mood(g1) == IF ~g1.preparingPounce THEN updateCatState(g1, distSq)
                                                ELSE g1
         IN CHOOSE h \in {keepWithinBounds(g2) :
                            g2 \in {Mood(g1) :
                                g1 \in {steer(g0) : g0 \in {preparePounce(g)}}}} : TRUE

\* update() testing the eating guard before the resting guard
updateEatingFirst(g, r) ==
    IF g.demoMode THEN g
    ELSE IF g.isEating /\ g.currentFood # NoFood THEN updateEating(g)
    ELSE IF g.isResting THEN updateResting(g, r)
    ELSE IF g.isPouncing THEN updatePouncing(g)
    ELSE updateChase(g)

\* update() running in demo mode as well
updateInDemoMode(g, r) ==
    IF g.isResting THEN updateResting(g, r)
    ELSE IF g.isEating /\ g.currentFood # NoFood THEN updateEating(g)
    ELSE IF g.isPouncing THEN updatePouncing(g)
    ELSE updateChase(g)

\* update(): the guards in their order, each branch returning
update(g, r) ==
    IF g.demoMode THEN g
    ELSE IF g.isResting THEN updateResting(g, r)
    ELSE IF g.isEating /\ g.currentFood # NoFood THEN updateEating(g)
    ELSE IF g.isPouncing THEN updatePouncing(g)
    ELSE updateChase(g)

\* the trail pushed to and never shifted
pushTrailUnbounded(trail, pos) == Append(trail, pos)

\* the trail pushed to, then popped beyond maxTrailLength
pushTrailEvictingNewest(trail, pos) ==
    LET t == Append(trail, pos)
    IN IF Len(t) > maxTrailLength THEN SubSeq(t, 1, Len(t) - 1) ELSE t

\* this.trailPositions.push(pos), then shift() beyond maxTrailLength
pushTrail(trail, pos) ==
    LET t == Append(trail, pos)
    IN IF Len(t) > maxTrailLength THEN Tail(t) ELSE t

\* the pointer speed both input handlers compute: pixels per 16 ms
pointerSpeed(g, dx, dy) ==
    LET dt == now - g.lastMouseTime
    IN IF dt > 0 THEN Fix(Sqrt(DistSq(dx, dy)) * 16, dt) ELSE g.mouseSpeed

\* handleMouseMove taking the sample whatever the control mode
handleMouseMoveAnyMode(g, x, y) ==
    [g EXCEPT
        !.mouseSpeed = pointerSpeed(g, x - g.lastMousePos.x, y - g.lastMousePos.y),
        !.lastMousePos = Pos(x, y),
        !.lastMouseTime = now,
        !.prevYarnPos = g.yarnPos,
        !.yarnPos = Pos(x, y),
        !.trailPositions = pushTrail(@, Pos(x, y)),
        !.noted.accepted = Min(@ + 1, MaxAccepted),
        !.noted.lastTarget = Pos(x, y)]

handleMouseMove(g, x, y) ==
    IF g.controlMode # "mouse" THEN g
    ELSE [g EXCEPT
            !.mouseSpeed = pointerSpeed(g, x - g.lastMousePos.x, y - g.lastMousePos.y),
            !.lastMousePos = Pos(x, y),
            !.lastMouseTime = now,
            !.prevYarnPos = g.yarnPos,
            !.yarnPos = Pos(x, y),
            !.trailPositions = pushTrail(@, Pos(x, y)),
            !.noted.accepted = Min(@ + 1, MaxAccepted),
            !.noted.lastTarget = Pos(x, y)]

updateYarnFromFinger(g) ==
    [g EXCEPT
        !.mouseSpeed = pointerSpeed(g, g.smoothedFingerPos.x - g.prevYarnPos.x,
                                       g.smoothedFingerPos.y - g.prevYarnPos.y),
        !.lastMouseTime = now,
        !.prevYarnPos = g.yarnPos,
        !.yarnPos = g.smoothedFingerPos,
        !.trailPositions = pushTrail(@, g.smoothedFingerPos),
        !.noted.accepted = Min(@ + 1, MaxAccepted),
        !.noted.lastTarget = g.smoothedFingerPos]

\* a result of the hand tracker: no hand, an open hand with its palm at p,
\* or (hand "pointing") a pointing hand with its index finger tip at p
NoHand == [hand |-> "none", at |-> NoPos]
OpenHand(p) == [hand |-> "open", at |-> p]
Pointing(p) == [hand |-> "pointing", at |-> p]

\* onHandResults giving up the target when no hand is detected
onHandResultsDroppingTarget(g, r) ==
    IF r.hand = "none"
    THEN [g EXCEPT !.isOpenHand = FALSE, !.noted.handLost = TRUE,
                   !.prevYarnPos = g.yarnPos, !.yarnPos = g.smoothedFingerPos]
    ELSE IF r.hand = "open"
    THEN IF ~g.isOpenHand
         THEN spawnFood([g EXCEPT !.isOpenHand = TRUE, !.noted.handLost = FALSE],
                        r.at.x, r.at.y)
         ELSE [g EXCEPT !.noted.handLost = FALSE]
    ELSE LET g1 == [g EXCEPT
                      !.isOpenHand = FALSE,
                      !.noted.handLost = FALSE,
                      !.smoothedFingerPos =
                          Pos(@.x + Fix((r.at.x - @.x) * 3, 10),
                              @.y + Fix((r.at.y - @.y) * 3, 10))]
         IN IF g1.controlMode = "camera" THEN updateYarnFromFinger(g1) ELSE g1

onHandResults(g, r) ==
    IF r.hand = "none" THEN [g EXCEPT !.isOpenHand = FALSE, !.noted.handLost = TRUE]
    ELSE IF r.hand = "open"
    THEN IF ~g.isOpenHand
         THEN spawnFood([g EXCEPT !.isOpenHand = TRUE, !.noted.handLost = FALSE],
                        r.at.x, r.at.y)
         ELSE [g EXCEPT !.noted.handLost = FALSE]
    ELSE LET g1 == [g EXCEPT
                      !.isOpenHand = FALSE,
                      !.noted.handLost = FALSE,
                      !.smoothedFingerPos =
                          Pos(@.x + Fix((r.at.x - @.x) * 3, 10),
                              @.y + Fix((r.at.y - @.y) * 3, 10))]
         IN IF g1.controlMode = "camera" THEN updateYarnFromFinger(g1) ELSE g1

\* a demo or control-mode command is given: the observer marks the
\* trajectories in flight
MarkTrajectories(g) ==
    [g EXCEPT !.pounceAnims =
        [i \in DOMAIN @ |-> [@[i] EXCEPT !.overridden = TRUE]]]

\* startCamera() and stopCamera(), as far as the object's fields go
setControlMode(g, mode) ==
    [MarkTrajectories(g) EXCEPT !.controlMode = mode, !.camera = (mode = "camera")]

\* clearTimeout(this.demoTimeout)
\* triggerDemoState and exitDemoMode leaving the pending timeout alone
clearDemoTimeoutNot(g) == g

clearDemoTimeout(g) ==
    IF g.demoTimeout
    THEN [g EXCEPT !.demoTimers = SelectSeq(@, LAMBDA t : ~t.named)]
    ELSE g

playPounceDemo(g) ==
    IF ~g.demoMode \/ g.demoState # "pouncing" THEN g
    ELSE [g EXCEPT
            !.demoTimeout = TRUE,
            !.demoTimers =
                Append([i \in DOMAIN @ |-> [@[i] EXCEPT !.named = FALSE]],
                       [due |-> demoReplayDelay, old |-> FALSE, named |-> TRUE])]

\* demo mode is entered: the observer marks the timeouts that are pending
MarkTimers(g) ==
    LET Mark(ts) == [i \in DOMAIN ts |-> [ts[i] EXCEPT !.old = TRUE]]
    IN [g EXCEPT !.eatTimers = Mark(@), !.restTimers = Mark(@),
                 !.cooldownTimers = Mark(@)]

\* triggerDemoState saving the position at every call
triggerDemoStateSavingAgain(g, state) ==
    LET g1 == clearDemoTimeout(MarkTrajectories(IF g.demoMode THEN g ELSE MarkTimers(g)))
        g2 == [g1 EXCEPT
                 !.savedCatPos = g.catPos,
                 !.noted.demoEntry = IF ~g.demoMode THEN g.catPos ELSE @,
                 !.demoMode = TRUE,
                 !.demoState = state,
                 !.catPos = Pos(Fix(Px(innerWidth), 2), Fix(Px(innerHeight), 2)),
                 !.isPouncing = FALSE,
                 !.isResting = FALSE,
                 !.preparingPounce = FALSE]
        g3 == setCatState(g2, state)
    IN IF state = "pouncing" THEN playPounceDemo(g3) ELSE g3

triggerDemoState(g, state) ==
    LET g1 == clearDemoTimeout(MarkTrajectories(IF g.demoMode THEN g ELSE MarkTimers(g)))
        g2 == [g1 EXCEPT
                 !.savedCatPos = IF ~g.demoMode THEN g.catPos ELSE @,
                 !.noted.demoEntry = IF ~g.demoMode THEN g.catPos ELSE @,
                 !.demoMode = TRUE,
                 !.demoState = state,
                 !.catPos = Pos(Fix(Px(innerWidth), 2), Fix(Px(innerHeight), 2)),
                 !.isPouncing = FALSE,
                 !.isResting = FALSE,
                 !.preparingPounce = FALSE]
        g3 == setCatState(g2, state)
    IN IF state = "pouncing" THEN playPounceDemo(g3) ELSE g3

\* exitDemoMode setting the mode from this.demoState, which it has cleared
exitDemoModeToDemoState(g) ==
    IF ~g.demoMode THEN g
    ELSE LET g1 == [clearDemoTimeout(g) EXCEPT
                      !.demoMode = FALSE,
                      !.demoState = Null,
                      !.demoTimeout = FALSE]
             g2 == [g1 EXCEPT
                      !.catPos = IF g.savedCatPos # NoPos THEN g.savedCatPos ELSE @,
                      !.noted.demoEntry = NoPos,
                      !.isPouncing = FALSE,
                      !.isResting = FALSE,
                      !.preparingPounce = FALSE,
                      !.pounceCount = 0]
         IN setCatState(g2, g1.demoState)

exitDemoMode(g) ==
    IF ~g.demoMode THEN g
    ELSE LET g1 == [clearDemoTimeout(g) EXCEPT
                      !.demoMode = FALSE,
                      !.demoState = Null,
                      !.demoTimeout = FALSE]
             g2 == [g1 EXCEPT
                      !.catPos = IF g.savedCatPos # NoPos THEN g.savedCatPos ELSE @,
                      !.noted.demoEntry = NoPos,
                      !.isPouncing = FALSE,
                      !.isResting = FALSE,
                      !.preparingPounce = FALSE,
                      !.pounceCount = 0]
         IN setCatState(g2, "idle")

---------------------------------------------------------------------------
(* Construction *)

\* what the observer has recorded of the handler that ran last: who wrote
\* the cat position, whether a trajectory or a timeout that a command had
\* overridden acted, whether setCatState was called with the mode the cat
\* was in, and whether a direction was normalised with a distance of 0
Quiet == [writers |-> {}, overriddenWrote |-> FALSE, oldTimerActed |-> FALSE,
          repeated |-> FALSE, dividedByZero |-> FALSE]

\* what the observer keeps from one handler to the next: how many input
\* samples were accepted (counted up to MaxAccepted), where the cat was
\* when demo mode was entered, on which side of the pounceDistance
\* boundary the last update() found the ball, the target position of the
\* last accepted sample, whether the last hand-tracking result reported no
\* hand, and whether a pointer event came while the hand had the control
Nothing == [accepted |-> 0, demoEntry |-> NoPos, lastSide |-> "none",
            lastTarget |-> NoPos, handLost |-> FALSE, pointerInCameraMode |-> FALSE]

\* the side of the pounceDistance boundary update() finds the ball on:
\* "none" when it does not get to compare the nose distance with it
Side(g) ==
    IF \/ g.demoMode \/ g.isResting \/ g.isPouncing
       \/ g.isEating /\ g.currentFood # NoFood
       \/ NoseDistSq(g.catPos, g.yarnPos) < Sq(Px(catchDistance))
            /\ now - g.lastPounceTime > pounceCooldown
    THEN "none"
    ELSE IF NoseDistSq(g.catPos, g.yarnPos) < Sq(Px(pounceDistance))
    THEN "inside"
    ELSE "outside"

\* a handler is entered: the observer starts afresh
Enter(g) == [g EXCEPT !.obs = Quiet]

\* the field initialisers of the constructor; r is what Math.random() returns
constructor(r) ==
    [catPos |-> Pos(Fix(Px(innerWidth), 2), Fix(Px(innerHeight) * 6, 10)),
     catVelocity |-> Pos(0, 0), catSpeed |-> 0, catState |-> "idle",
     yarnPos |-> Pos(Fix(Px(innerWidth), 2) + Px(100), Fix(Px(innerHeight), 2)),
     prevYarnPos |-> Pos(Fix(Px(innerWidth), 2) + Px(100), Fix(Px(innerHeight), 2)),
     trailPositions |-> << >>, mouseSpeed |-> 0,
     lastMousePos |-> Pos(0, 0), lastMouseTime |-> now,
     controlMode |-> "mouse", camera |-> FALSE, isOpenHand |-> FALSE,
     smoothedFingerPos |-> Pos(0, 0),
     pounceCount |-> 0, totalPounces |-> 0, maxPouncesBeforeRest |-> firstThreshold(r),
     isPouncing |-> FALSE, isResting |-> FALSE,
     lastPounceTime |-> -PounceHorizon, restStartTime |-> -RestHorizon,
     preparingPounce |-> FALSE,
     currentFood |-> NoFood, isEating |-> FALSE, foodSpawnCooldown |-> FALSE,
     demoMode |-> FALSE, demoState |-> Null, demoTimeout |-> FALSE,
     savedCatPos |-> NoPos,
     pounceAnims |-> << >>,
     eatTimers |-> << >>, cooldownTimers |-> << >>,
     restTimers |-> << >>, demoTimers |-> << >>,
     lastCapture |-> NoTime,
     obs |-> Quiet,
     noted |-> [Nothing EXCEPT !.lastTarget =
                   Pos(Fix(Px(innerWidth), 2) + Px(100), Fix(Px(innerHeight), 2))]]

\* one animation frame: the pending animatePounce closures in request
\* order, each writing the position, then gameLoop (update; render only
\* draws)
runAnimations(g) ==
    IF g.pounceAnims = << >> THEN g
    ELSE [g EXCEPT
            !.catPos = animatePounce(g.pounceAnims[Len(g.pounceAnims)]),
            !.pounceAnims = SelectSeq(@, Reschedules),
            !.obs.writers = @ \cup {"pounce"},
            !.obs.overriddenWrote =
                \E i \in DOMAIN g.pounceAnims : g.pounceAnims[i].overridden]

animationFrame(g, r) == update(runAnimations(g), r)

\* init(): the first gameLoop() call (the cat is not resting: update draws
\* nothing), then setCatState('curious')
init(g) ==
    setCatState([update(g, 0) EXCEPT !.noted.lastSide = Side(g)], "curious")

Init ==
    /\ \E r \in Randoms : Is(init(constructor(r)))
    /\ clicks = 0
    /\ handResults = 0

---------------------------------------------------------------------------
(* The environment: what the pointer, the hand tracker and the user offer  *)

YarnStart == constructor(0).yarnPos

\* pointer positions: where the yarn ball starts, and 40 px to its right
MousePoints == {YarnStart, Pos(YarnStart.x + Px(40), YarnStart.y)}

\* palm positions of an open hand
PalmPoints == {Pos(YarnStart.x - Px(60), YarnStart.y)}

\* what the hand tracker reports: no hand, or an open hand
HandInputs == {NoHand} \cup {OpenHand(p) : p \in PalmPoints}

\* index finger tips of a pointing hand
FingerPoints == {Pos(YarnStart.x - Px(100), YarnStart.y + Px(50))}

\* the pointer stays over the window
OverWindow(p) ==
    /\ 0 <= p.x /\ p.x <= Px(innerWidth)
    /\ 0 <= p.y /\ p.y <= Px(innerHeight)

---------------------------------------------------------------------------
(* Steps *)

\* the pointer is elsewhere and the cat's nose reaches p
WithinReach(p) ==
    /\ p # lastMousePos
    /\ NoseDistSq(catPos, p) < Sq(Px(catchDistance))

\* the player, who steers the ball with the pointer, has a move to make
PlayerToMove == controlMode = "mouse" /\ \E p \in MousePoints : WithinReach(p)

\* the pointer moves over the game area (mousemove, touchmove): the
\* player holds the ball out where the cat's nose reaches it
MouseMove ==
    /\ \E p \in MousePoints :
        /\ WithinReach(p)
        /\ Becomes(handleMouseMove(Enter(This), p.x, p.y))
    /\ UNCHANGED <<clicks, handResults>>

\* the hand tracker delivers a result; it runs while the camera does
HandResults ==
    /\ camera
    /\ handResults < MaxHandResults
    /\ handResults' = handResults + 1
    /\ \E r \in HandInputs : Becomes(onHandResults(Enter(This), r))
    /\ UNCHANGED clicks

Click ==
    /\ clicks < MaxClicks
    /\ clicks' = clicks + 1
    /\ UNCHANGED handResults

\* a click on a control-mode button
ControlClick ==
    /\ Click
    /\ \E mode \in {"mouse", "camera"} :
        Becomes(setControlMode(Enter(This), mode))

\* a click on a button of the demo panel
DemoClick ==
    /\ Click
    /\ \E state \in DemoStates :
        Becomes(triggerDemoState(Enter(This), state))

\* a click outside the settings panel while demo mode is on
OutsideClick ==
    /\ Click
    /\ demoMode
    /\ Becomes(exitDemoMode(Enter(This)))

\* a timeout that is due
Due(timers) == timers # << >> /\ Head(timers).due = 0

\* whether a timeout callback changed the mode, a flag or the food
Acted(g, h) ==
    \/ g.catState # h.catState
    \/ g.isEating # h.isEating \/ g.isResting # h.isResting
    \/ g.isPouncing # h.isPouncing \/ g.preparingPounce # h.preparingPounce
    \/ g.currentFood # h.currentFood \/ g.foodSpawnCooldown # h.foodSpawnCooldown

\* a timeout is due and its callback runs; a list holds timeouts of one
\* delay, so the oldest is due first
EatTimeout ==
    /\ UNCHANGED <<clicks, handResults>>
    /\ Due(eatTimers)
    /\ LET g == [Enter(This) EXCEPT !.eatTimers = Tail(@)]
           h == finishEating(g)
       IN Becomes([h EXCEPT !.obs.oldTimerActed =
                                Head(eatTimers).old /\ Acted(g, h)])

CooldownTimeout ==
    /\ UNCHANGED <<clicks, handResults>>
    /\ Due(cooldownTimers)
    /\ LET g == [Enter(This) EXCEPT !.cooldownTimers = Tail(@)]
           h == [g EXCEPT !.foodSpawnCooldown = FALSE]
       IN Becomes(h)

RestTimeout ==
    /\ UNCHANGED <<clicks, handResults>>
    /\ Due(restTimers)
    /\ LET g == [Enter(This) EXCEPT !.restTimers = Tail(@)]
           h == updateRestingCountdown(g)
       IN Becomes([h EXCEPT !.obs.oldTimerActed =
                                Head(restTimers).old /\ Acted(g, h)])

DemoTimeout ==
    /\ UNCHANGED <<clicks, handResults>>
    /\ Due(demoTimers)
    /\ LET g == [Enter(This) EXCEPT !.demoTimers = Tail(@)]
       IN Becomes(IF g.demoMode /\ g.demoState = "pouncing"
                  THEN playPounceDemo(g) ELSE g)

\* ms milliseconds pass; the start of a rest is compared with the present
\* only while the cat rests
elapse(g, ms) ==
    LET Run(ts) == [i \in DOMAIN ts |-> [ts[i] EXCEPT !.due = Nearer(@, ms)]]
    IN [g EXCEPT
          !.lastMouseTime = Older(@, ms, MouseHorizon),
          !.lastPounceTime = Older(@, ms, PounceHorizon),
          !.restStartTime = IF g.isResting THEN Older(@, ms, RestHorizon)
                                           ELSE -RestHorizon,
          !.lastCapture = Older(@, ms, PounceHorizon),
          !.pounceAnims =
              [i \in DOMAIN @ |->
                  [@[i] EXCEPT !.startTime = Older(@, ms, PounceHorizon)]],
          !.eatTimers = Run(@), !.cooldownTimers = Run(@),
          !.restTimers = Run(@), !.demoTimers = Run(@)]

\* the display refreshes: the browser runs the frame's callbacks; the next
\* refresh is Step ms later, and whatever else happens, happens in between.
\* A timeout that is due runs before the refresh, and the player moves the
\* ball before it.
RefreshAfter(captures, ms) ==
    /\ ~PlayerToMove
    /\ ~Due(eatTimers) /\ ~Due(cooldownTimers)
    /\ ~Due(restTimers) /\ ~Due(demoTimers)
    /\ \E r \in Randoms :
        LET g == animationFrame(Enter(This), r)
        IN /\ g.totalPounces <= captures
           /\ Becomes(elapse(g, ms))
    /\ UNCHANGED <<clicks, handResults>>

Refresh(captures) == RefreshAfter(captures, Step)

Frame == Refresh(MaxCaptures)

Next ==
    \/ Frame
    \/ MouseMove
    \/ HandResults
    \/ ControlClick
    \/ DemoClick
    \/ OutsideClick
    \/ EatTimeout
    \/ CooldownTimeout
    \/ RestTimeout
    \/ DemoTimeout

Spec == Init /\ [][Next]_vars

---------------------------------------------------------------------------
(* The demo override: the player plays with the pointer, and the demo      *)
(* panel is clicked and left.                                              *)

PanelClick ==
    /\ clicks < MaxDemoClicks
    /\ clicks' = clicks + 1
    /\ UNCHANGED handResults

\* a click on a button of the demo panel
EnterDemo ==
    /\ PanelClick
    /\ \E state \in DemoStates :
        Becomes(triggerDemoState(Enter(This), state))

\* a click outside the settings panel while demo mode is on
LeaveDemo ==
    /\ PanelClick
    /\ demoMode
    /\ Becomes(exitDemoMode(Enter(This)))

DemoFrame == Refresh(MaxDemoCaptures)

NextDemo ==
    \/ DemoFrame
    \/ MouseMove
    \/ EnterDemo
    \/ LeaveDemo
    \/ DemoTimeout

SpecDemo == Init /\ [][NextDemo]_vars

---------------------------------------------------------------------------
(* Input samples alone.  update() and the callbacks read the fields the    *)
(* input handlers write (yarnPos, prevYarnPos, trailPositions, mouseSpeed, *)
(* lastMousePos, lastMouseTime, smoothedFingerPos, controlMode) and never  *)
(* write them: here time passes and samples arrive, and the cat is left    *)
(* out.                                                                    *)

\* a mousemove or touchmove event at p; such an event reports a move
PointerAt(p) ==
    /\ p # lastMousePos
    /\ Becomes([handleMouseMove(Enter(This), p.x, p.y) EXCEPT
                   !.noted.pointerInCameraMode = @ \/ controlMode = "camera"])
    /\ UNCHANGED <<clicks, handResults>>

PointerSample == \E p \in MousePoints : PointerAt(p)

\* the hand tracker delivers the result r: it does once the camera has
\* been started, and what it still has in hand arrives after the camera is
\* stopped
HandSample(r, most) ==
    /\ camera \/ clicks > 0
    /\ handResults < most
    /\ handResults' = handResults + 1
    /\ Becomes(onHandResults(Enter(This), r))
    /\ UNCHANGED clicks

FingerSample == \E p \in FingerPoints : HandSample(Pointing(p), MaxHandSamples)

NoHandSample == HandSample(NoHand, MaxHandSamples)

\* a click on the control-mode button that is not the active one
Switch(most) ==
    /\ clicks < most
    /\ clicks' = clicks + 1
    /\ UNCHANGED handResults
    /\ \E mode \in {"mouse", "camera"} \ {controlMode} :
        Becomes(setControlMode(Enter(This), mode))

SwitchControl == Switch(MaxClicks)

\* Step ms pass
Pause ==
    /\ Becomes(elapse(Enter(This), Step))
    /\ UNCHANGED <<clicks, handResults>>

NextInput ==
    \/ PointerSample
    \/ FingerSample
    \/ NoHandSample
    \/ SwitchControl
    \/ Pause

SpecInput == Init /\ [][NextInput]_vars

---------------------------------------------------------------------------
(* The hand steers the ball: the control mode is switched, the hand        *)
(* tracker reports a pointing hand or none, and the display refreshes.     *)

CameraFrame == Refresh(MaxCameraCaptures)

CameraSwitch == Switch(MaxCameraSwitches)

FingerSeen == \E p \in FingerPoints : HandSample(Pointing(p), MaxCameraSamples)

HandLost == HandSample(NoHand, MaxCameraSamples)

NextCamera ==
    \/ CameraFrame
    \/ MouseMove
    \/ CameraSwitch
    \/ FingerSeen
    \/ HandLost

SpecCamera == Init /\ [][NextCamera]_vars

---------------------------------------------------------------------------
(* The pounce arc: the player plays with the pointer, and the display      *)
(* refreshes at uneven intervals, so that the trajectory is sampled at     *)
(* several points of its progress, the middle among them.                  *)

ArcFrame == \E ms \in {ShortGap, LongGap} : RefreshAfter(MaxArcCaptures, ms)

NextArc ==
    \/ ArcFrame
    \/ MouseMove

SpecArc == Init /\ [][NextArc]_vars

---------------------------------------------------------------------------
(* The approach to a ball that lies still.  The cat has stopped (as it has *)
(* after a rest, which sets its velocity to zero) at one of CatStarts and  *)
(* is idle; the pointer drops the ball 200 px from it and stays there, and *)
(* the display refreshes.                                                  *)

\* where the cat has stopped: where the constructor puts it, and higher up
CatStarts ==
    {constructor(0).catPos, Pos(Fix(Px(innerWidth), 2), Px(150))}

\* where the ball is dropped, from the cat: 200 px to the right, to the
\* left, down to the right and down to the left
BallOffsets ==
    {Pos(Px(200), 0), Pos(-Px(200), 0), Pos(Px(160), Px(120)), Pos(-Px(160), Px(120))}

InitApproach ==
    /\ \E r \in Randoms, c \in CatStarts :
        Is([init(constructor(r)) EXCEPT
               !.catPos = c, !.catVelocity = Pos(0, 0), !.catSpeed = 0,
               !.catState = "idle", !.preparingPounce = FALSE,
               !.noted.lastSide = "none"])
    /\ clicks = 0
    /\ handResults = 0

DropBall ==
    /\ noted.accepted = 0
    /\ \E d \in BallOffsets :
        LET p == Pos(catPos.x + d.x, catPos.y + d.y)
        IN /\ OverWindow(p)
           /\ Becomes(handleMouseMove(Enter(This), p.x, p.y))
    /\ UNCHANGED <<clicks, handResults>>

ApproachFrame ==
    /\ noted.accepted > 0
    /\ \E r \in Randoms :
        \E g \in {elapse(animationFrame(Enter(This), r), Step)} : Becomes(g)
    /\ UNCHANGED <<clicks, handResults>>

NextApproach ==
    \/ DropBall
    \/ ApproachFrame

SpecApproach == InitApproach /\ [][NextApproach]_vars

---------------------------------------------------------------------------
(* The ball held at the pounceDistance boundary: whenever the cat has      *)
(* moved, the player puts the ball straight ahead of its nose again,       *)
(* Wobble nearer or farther than pounceDistance, and the display           *)
(* refreshes.                                                              *)

\* how far from the boundary the player holds the ball: one pixel
Wobble == Px(1)

\* where the player puts the ball, the cat being at cat
BoundaryTargets(cat) ==
    {Pos(cat.x + Px(35) + Px(pounceDistance) + d, cat.y - Px(15)) :
        d \in {-Wobble, Wobble}}

Oscillate ==
    /\ yarnPos \notin BoundaryTargets(catPos)
    /\ \E p \in BoundaryTargets(catPos) :
        /\ OverWindow(p)
        /\ Becomes(handleMouseMove(Enter(This), p.x, p.y))
    /\ UNCHANGED <<clicks, handResults>>

\* the display refreshes with the ball at the boundary; the observer notes
\* the side update() found it on
BoundaryFrame ==
    /\ yarnPos \in BoundaryTargets(catPos)
    /\ \E r \in Randoms :
        LET g == runAnimations(Enter(This))
        IN Becomes([elapse(update(g, r), Step) EXCEPT !.noted.lastSide = Side(g)])
    /\ UNCHANGED <<clicks, handResults>>

NextBoundary ==
    \/ Oscillate
    \/ BoundaryFrame

SpecBoundary == Init /\ [][NextBoundary]_vars

---------------------------------------------------------------------------
(* The cooldown between captures *)

\* C1: two captures registered one after the other are at least
\* pounceCooldown ms apart: when update() counts a capture, the capture
\* before it, if there was one, is at least that old.
CooldownBetweenCaptures ==
    [][totalPounces' # totalPounces
         => (lastCapture = NoTime \/ now - lastCapture >= pounceCooldown)]_vars

\* a second capture has just been counted
SecondCaptureCounted ==
    /\ totalPounces >= 2
    /\ lastCapture = now - Step
    /\ isPouncing

---------------------------------------------------------------------------
(* The fatigue counter *)

\* C2: the count of completed pounces is always between 0 and the rest
\* threshold, and the frame in which a completed pounce brings it to the
\* threshold sets isResting and the mode 'resting'.
CountWithinThreshold ==
    /\ [](0 <= pounceCount /\ pounceCount <= maxPouncesBeforeRest)
    /\ [][pounceCount' = pounceCount + 1
            /\ pounceCount' = maxPouncesBeforeRest'
              => isResting' /\ catState' = "resting"]_vars

\* the pounce that brought the count to the threshold has just completed
RestJustEntered ==
    /\ isResting
    /\ catState = "resting"
    /\ pounceCount = maxPouncesBeforeRest
    /\ restStartTime = now - Step

\* C3: whenever the cat is not resting, the count of completed pounces is
\* below the rest threshold, demo mode or not.
BelowThresholdUnlessResting ==
    ~isResting => pounceCount < maxPouncesBeforeRest

---------------------------------------------------------------------------
(* Who owns the cat *)

\* C4: at most one of preparingPounce, isPouncing, isResting and isEating
\* is true.
FlagsExclusive ==
    Cardinality({f \in {"preparing", "pouncing", "resting", "eating"} :
                    \/ f = "preparing" /\ preparingPounce
                    \/ f = "pouncing" /\ isPouncing
                    \/ f = "resting" /\ isResting
                    \/ f = "eating" /\ isEating}) <= 1

\* C5: in one frame the cat's position is written by at most one of the
\* steering branch, animatePounce and the eating approach.
OneWriterPerFrame == Cardinality(obs.writers) <= 1

\* C6: once a demo or control-mode command is given, the trajectories that
\* were in flight write the cat's position no more.
OverriddenTrajectoryIsCancelled == ~obs.overriddenWrote

\* C7: a timeout set before demo mode was entered changes neither the mode
\* nor a flag nor the food from then on.
OldTimersAreInert == ~obs.oldTimerActed

---------------------------------------------------------------------------
(* The mode *)

\* C8: the mode is always one of idle, curious, running, excited,
\* preparing-pounce, pouncing, resting and eating.
ModeIsEnumerated == catState \in States

\* the cat has reached the food and a frame has set the mode 'eating'
EatingModeSet == catState = "eating" /\ eatTimers # << >>

\* C9: when update() is entered outside demo mode with the cat neither
\* resting nor eating nor pouncing, the ball less than catchDistance from
\* its nose and the last capture more than the cooldown ago, it sets the
\* mode 'pouncing' and isPouncing and counts exactly one capture.
CaptureWithinReach ==
    [][Frame =>
         LET g == runAnimations(Enter(This))
         IN (/\ ~g.demoMode /\ ~g.isResting /\ ~g.isEating /\ ~g.isPouncing
             /\ NoseDistSq(g.catPos, g.yarnPos) < Sq(Px(25))
             /\ now - g.lastPounceTime > pounceCooldown)
            => /\ catState' = "pouncing"
               /\ isPouncing'
               /\ totalPounces' = totalPounces + 1]_vars

\* the first capture has just been counted and the cat pounces
FirstCapturePounces ==
    /\ totalPounces = 1
    /\ catState = "pouncing"
    /\ lastPounceTime = now - Step

---------------------------------------------------------------------------
(* The trail *)

\* C11: whatever pointer, touch and finger samples have arrived, the trail
\* holds between 0 and maxTrailLength positions.
TrailWithinLength ==
    0 <= Len(trailPositions) /\ Len(trailPositions) <= maxTrailLength

\* the trail is full and more samples were accepted than it holds
TrailFullAfterEviction ==
    /\ Len(trailPositions) = maxTrailLength
    /\ noted.accepted = MaxAccepted

\* a sample is accepted: a pointer sample in mouse mode, a pointing hand in
\* camera mode
AcceptedSample ==
    \/ PointerSample /\ controlMode = "mouse"
    \/ FingerSample /\ controlMode = "camera"

\* the last maxTrailLength entries of t, in their order
Latest(t) ==
    IF Len(t) > maxTrailLength
    THEN SubSeq(t, Len(t) - maxTrailLength + 1, Len(t))
    ELSE t

\* C12: after n accepted samples the trail holds the last min(n, 10) target
\* positions, oldest first: it holds min(n, 10) positions, an accepted
\* sample appends its target position and, the trail being full, drops the
\* oldest entry only, and nothing else changes the trail.
TrailHoldsLatestSamples ==
    /\ [](Len(trailPositions) = Min(noted.accepted, maxTrailLength))
    /\ [][/\ AcceptedSample
              => trailPositions' = Latest(Append(trailPositions, yarnPos'))
          /\ \A p \in MousePoints :
                PointerAt(p) /\ controlMode = "mouse" => yarnPos' = p
          /\ ~AcceptedSample => trailPositions' = trailPositions]_vars

\* pointer and finger samples have filled the trail and evicted the oldest
OldestSampleEvicted ==
    /\ noted.accepted > maxTrailLength
    /\ Len(trailPositions) = maxTrailLength
    /\ trailPositions[maxTrailLength] = yarnPos
    /\ \E i \in DOMAIN trailPositions : trailPositions[i] \in MousePoints
    /\ \E i \in DOMAIN trailPositions : trailPositions[i] \notin MousePoints

---------------------------------------------------------------------------
(* The pounceDistance boundary *)

\* C13: with the ball held one pixel nearer or farther than pounceDistance
\* from the nose, a tick that finds the ball on the side the tick before
\* found it on does not change the mode between 'preparing-pounce' and the
\* chase states: the mode changes between them only when the boundary was
\* crossed.
ModeTogglesOnlyAtCrossing ==
    [][(/\ BoundaryFrame
        /\ noted.lastSide # "none"
        /\ noted.lastSide' = noted.lastSide)
       => ((catState' = "preparing-pounce") = (catState = "preparing-pounce"))]_vars

\* the ball went out of pounceDistance and came back in: the cat prepares
\* to pounce, and the tick before found the ball inside as well
PreparingAfterCrossing ==
    /\ catState = "preparing-pounce"
    /\ noted.lastSide = "inside"
    /\ NoseDistSq(catPos, yarnPos) < Sq(Px(pounceDistance))

---------------------------------------------------------------------------
(* Leaving demo mode *)

\* C14: leaving demo mode puts the cat back where it was when demo mode was
\* entered, however many demo states were shown and whatever moved the cat
\* in between.
ExitRestoresEntryPosition ==
    [][LeaveDemo => noted.demoEntry # NoPos /\ catPos' = noted.demoEntry]_vars

\* demo mode was entered right after a capture, the trajectory wrote the
\* cat's position while a second demo state was shown, and demo mode was
\* left: the cat is back where the trajectory started
RestoredAfterTwoDemoStates ==
    /\ ~demoMode
    /\ clicks = MaxDemoClicks
    /\ noted.demoEntry = NoPos
    /\ pounceAnims # << >>
    /\ lastPounceTime <= now - 2 * Step
    /\ catPos = pounceAnims[1].start
    /\ catState = "idle"

---------------------------------------------------------------------------
(* The hand is lost *)

\* the scalar product of the vector v with the vector from a to b
Along(v, a, b) == v.x * (b.x - a.x) + v.y * (b.y - a.y)

\* C15: a hand-tracking result that reports no hand leaves the target
\* position, the previous target position and the trail as they are; the
\* target update() reads stays the target of the last accepted sample; and
\* a tick after the hand was lost that gets to steer, more than 30 px from
\* that target, steers toward it: the cat moves by its new velocity, which
\* does not point away from the target unless the old one did, and points
\* toward it when the cat was at rest.
HandLossHoldsTarget ==
    /\ [][HandLost => UNCHANGED <<yarnPos, prevYarnPos, trailPositions>>]_vars
    /\ [](yarnPos = noted.lastTarget)
    /\ [][LET g == runAnimations(Enter(This))
              target == noted.lastTarget
          IN (/\ CameraFrame
              /\ noted.handLost
              /\ Side(g) # "none"
              /\ DistSq(target.x - g.catPos.x, target.y - g.catPos.y) > Sq(Px(30))
              /\ Along(g.catVelocity, g.catPos, target) >= 0)
             => /\ Along(catVelocity', g.catPos, target) >= 0
                /\ g.catVelocity = Pos(0, 0)
                     => Along(catVelocity', g.catPos, target) > 0
                /\ catPos' = keepWithinBounds(
                       [g EXCEPT !.catPos = Pos(@.x + catVelocity'.x,
                                                @.y + catVelocity'.y)]).catPos]_vars

\* the hand pointed, the ball followed the finger, the hand was lost, and
\* the cat is on its way to where the ball was left
ChasingAfterHandLoss ==
    /\ controlMode = "camera"
    /\ noted.handLost
    /\ yarnPos = smoothedFingerPos
    /\ yarnPos = noted.lastTarget
    /\ catState = "running"
    /\ Along(catVelocity, catPos, yarnPos) > 0

---------------------------------------------------------------------------
(* The active control source *)

\* C16: only the active control source writes the target: in camera mode
\* a mouse or touch event changes neither yarnPos nor the trail nor the
\* input speed, in mouse mode a hand-tracking result changes neither
\* yarnPos nor the trail, and yarnPos changes with an accepted sample only.
OnlyActiveSourceWrites ==
    /\ [][\A p \in MousePoints :
            PointerAt(p) /\ controlMode = "camera"
              => UNCHANGED <<yarnPos, prevYarnPos, trailPositions, mouseSpeed>>]_vars
    /\ [][(FingerSample \/ NoHandSample) /\ controlMode = "mouse"
            => UNCHANGED <<yarnPos, prevYarnPos, trailPositions>>]_vars
    /\ [][yarnPos' # yarnPos => AcceptedSample]_vars

\* the hand had the control and a pointer event came; the pointer has it
\* again, and a pointing hand was reported: the ball is where the finger
\* put it
InactiveSourcesIgnored ==
    /\ noted.pointerInCameraMode
    /\ controlMode = "mouse"
    /\ handResults = MaxHandSamples
    /\ noted.accepted = 1
    /\ yarnPos \notin MousePoints
    /\ smoothedFingerPos # yarnPos
    /\ lastMouseTime < now

---------------------------------------------------------------------------
(* The approach *)

\* the square of the distance from the cat's centre to the ball
CentreDistSq == DistSq(yarnPos.x - catPos.x, yarnPos.y - catPos.y)

\* the velocity decays toward 0
Decays ==
    /\ Abs(catVelocity'.x) <= Abs(catVelocity.x)
    /\ Abs(catVelocity'.y) <= Abs(catVelocity.y)
    /\ catVelocity # Pos(0, 0) => catVelocity' # catVelocity

\* C17, as claimed: with the ball lying still 200 px from a cat at rest,
\* every tick brings the cat's centre nearer to the ball until it is within
\* 30 px; from then on the position stays and the velocity decays.
CloserOnEveryTick ==
    [][ApproachFrame =>
         /\ CentreDistSq > Sq(Px(30)) => CentreDistSq' < CentreDistSq
         /\ CentreDistSq <= Sq(Px(30)) => catPos' = catPos /\ Decays]_vars

\* C17, amended: every tick that steers and is not held back by the bounds
\* brings the cat's centre nearer to the ball until it is within 30 px; from
\* then on the position stays and the velocity decays.
CloserOnEverySteeringTick ==
    [][ApproachFrame =>
         /\ (/\ CentreDistSq > Sq(Px(30))
             /\ Side(runAnimations(Enter(This))) # "none"
             /\ LET p == Pos(catPos.x + catVelocity'.x, catPos.y + catVelocity'.y)
                IN p = keepWithinBounds([This EXCEPT !.catPos = p]).catPos)
            => CentreDistSq' < CentreDistSq
         /\ (CentreDistSq <= Sq(Px(30)) /\ Side(runAnimations(Enter(This))) # "none")
            => catPos' = catPos /\ Decays]_vars

\* the cat has steered all the way and stopped within 30 px of the ball,
\* without a capture
StoppedAtStopRadius ==
    /\ noted.accepted = 1
    /\ totalPounces = 0
    /\ CentreDistSq <= Sq(Px(30))
    /\ catVelocity = Pos(0, 0)

---------------------------------------------------------------------------
(* The pounce arc *)

\* the trajectory that is half way through its duration
MidArc(a) == 2 * (now - a.startTime) = pounceDuration

\* C18, as claimed: half way through a pounce the cat's vertical coordinate
\* is start.y + (target.y - start.y) * 0.5 + peakHeight.
MidArcBelowLine ==
    [][ArcFrame =>
         \A i \in DOMAIN pounceAnims :
            MidArc(pounceAnims[i])
              => catPos'.y = pounceAnims[i].start.y
                               + Fix(pounceAnims[i].target.y - pounceAnims[i].start.y, 2)
                               + Px(peakHeight)]_vars

\* C18, amended: half way through a pounce the cat's vertical coordinate is
\* start.y + (target.y - start.y) * 0.5 - peakHeight: the cat is peakHeight
\* above the straight line (y grows downward), and its horizontal
\* coordinate is half way.
MidArcAboveLine ==
    [][ArcFrame =>
         \A i \in DOMAIN pounceAnims :
            MidArc(pounceAnims[i])
              => /\ catPos'.y = pounceAnims[i].start.y
                                  + Fix(pounceAnims[i].target.y - pounceAnims[i].start.y, 2)
                                  - Px(peakHeight)
                 /\ catPos'.x = pounceAnims[i].start.x
                                  + Fix(pounceAnims[i].target.x - pounceAnims[i].start.x, 2)]_vars

\* the display has just refreshed half way through a pounce
MidArcSampled ==
    /\ pounceAnims # << >>
    /\ isPouncing
    /\ pounceAnims[1].startTime = now - (pounceDuration \div 2) - ShortGap
    /\ catPos.y = pounceAnims[1].start.y
                    + Fix(pounceAnims[1].target.y - pounceAnims[1].start.y, 2)
                    - Px(peakHeight)

---------------------------------------------------------------------------
(* The capture test.  The player plays with the pointer and, while the cat *)
(* leaps, moves the ball to where its nose will be; the demo panel is      *)
(* clicked and left.                                                       *)

MaxNoseCaptures == 1

\* where the cat's nose is when the callbacks of the coming refresh have run
NosePoint ==
    LET cat == runAnimations(Enter(This)).catPos
    IN Pos(cat.x + Px(35), cat.y - Px(15))

\* the pointer moves to the nose of the leaping cat (mousemove, touchmove)
HoldAtNose ==
    /\ controlMode = "mouse"
    /\ isPouncing
    /\ NosePoint # lastMousePos
    /\ OverWindow(NosePoint)
    /\ Becomes(handleMouseMove(Enter(This), NosePoint.x, NosePoint.y))
    /\ UNCHANGED <<clicks, handResults>>

NoseFrame == Refresh(MaxNoseCaptures)

NextNose ==
    \/ NoseFrame
    \/ MouseMove
    \/ HoldAtNose
    \/ EnterDemo
    \/ LeaveDemo
    \/ DemoTimeout

SpecNose == Init /\ [][NextNose]_vars

\* update() gets to the capture test: the cat is not in demo mode, not
\* resting, not eating and not pouncing
ReachesCaptureTest(g) ==
    /\ ~g.demoMode /\ ~g.isResting /\ ~g.isPouncing
    /\ ~(g.isEating /\ g.currentFood # NoFood)

\* C19: a tick that gets to the capture test registers a capture if and
\* only if the ball is less than 25 px from the nose and the last capture is
\* at least pounceCooldown ms old; it does when it is exactly that old.
CaptureIffNearAndCooledDown ==
    [][NoseFrame =>
         LET g == runAnimations(Enter(This))
         IN ReachesCaptureTest(g)
              => ((totalPounces' = totalPounces + 1)
                    <=> (/\ NoseDistSq(g.catPos, g.yarnPos) < Sq(Px(25))
                         /\ now - g.lastPounceTime >= pounceCooldown))]_vars

---------------------------------------------------------------------------
(* The order of the guards of update() *)

\* what update() finds: the game after the frame's trajectory callbacks
AtUpdate == runAnimations(Enter(This))

Eating(g) == g.isEating /\ g.currentFood # NoFood

\* C20: a tick takes the first branch whose guard is active, in the order
\* resting, eating, pouncing, capture and chase.  While the cat rests, the
\* tick neither moves it nor starts a meal, completes a pounce or registers
\* a capture; while it eats, the tick neither completes a pounce nor
\* registers a capture nor steers; while it pounces, the tick neither
\* registers a capture nor steers nor prepares a pounce.
FirstActiveGuardWins ==
    [][Frame =>
         LET g == AtUpdate
         IN /\ (~g.demoMode /\ g.isResting)
                  => (/\ catPos' = g.catPos
                      /\ catVelocity' = g.catVelocity
                      /\ Len(eatTimers') = Len(g.eatTimers)
                      /\ isPouncing' = g.isPouncing
                      /\ pounceCount' \in {g.pounceCount, 0}
                      /\ totalPounces' = g.totalPounces
                      /\ preparingPounce' = g.preparingPounce
                      /\ catState' \in {g.catState, "curious"})
            /\ (~g.demoMode /\ ~g.isResting /\ Eating(g))
                  => (/\ catVelocity' = g.catVelocity
                      /\ isPouncing' = g.isPouncing
                      /\ pounceCount' = g.pounceCount
                      /\ ~isResting'
                      /\ totalPounces' = g.totalPounces
                      /\ preparingPounce' = g.preparingPounce
                      /\ catState' \in {g.catState, "running", "eating"})
            /\ (~g.demoMode /\ ~g.isResting /\ ~Eating(g) /\ g.isPouncing)
                  => (/\ catPos' = g.catPos
                      /\ catVelocity' \in {g.catVelocity, Pos(0, 0)}
                      /\ totalPounces' = g.totalPounces
                      /\ preparingPounce' = g.preparingPounce
                      /\ catState' \in {g.catState, "resting"})]_vars

\* the cat rests with food out, in camera mode without a click on the demo
\* panel, and ticks have passed since the food was put out: the cat has
\* neither set out for the food nor started to eat
RestedThroughMeal ==
    /\ ~demoMode /\ controlMode = "camera" /\ clicks = 1
    /\ isResting /\ Eating(This)
    /\ cooldownTimers # << >>
    /\ Head(cooldownTimers).due < foodSpawnDelay
    /\ catState = "resting"
    /\ eatTimers = << >>

---------------------------------------------------------------------------
(* The pounce count and the rest *)

\* update() completes a pounce: the pouncing branch, more than 600 ms after
\* the pounce began
CompletesPounce(g) ==
    /\ ~g.demoMode /\ ~g.isResting /\ ~Eating(g)
    /\ g.isPouncing /\ now - g.lastPounceTime > 600

\* update() ends the rest: the resting branch, more than restDuration after
\* the rest began
EndsRest(g) ==
    /\ ~g.demoMode /\ g.isResting
    /\ now - g.restStartTime > restDuration

\* C21: pounceCount changes in two ways only: a tick that completes a
\* pounce adds one to it, and a tick that ends the rest sets it to 0.
PounceCountChangesTwoWays ==
    [][pounceCount' # pounceCount =>
         /\ Frame
         /\ \/ CompletesPounce(AtUpdate) /\ pounceCount' = pounceCount + 1
            \/ EndsRest(AtUpdate) /\ pounceCount' = 0]_vars

\* demo mode is on, or a handler of the demo panel runs
DemoOverride == demoMode \/ DemoClick \/ OutsideClick \/ DemoTimeout

---------------------------------------------------------------------------
(* Feeding: the hand has the control, an open hand puts food out, and the  *)
(* demo panel is clicked and left while the cat walks to the food or eats. *)

MaxMealCaptures == 1
MaxMealSwitches == 1
MaxMealSamples == 1

MealFrame == Refresh(MaxMealCaptures)

MealSwitch == Switch(MaxMealSwitches)

OpenHandSeen == \E p \in PalmPoints : HandSample(OpenHand(p), MaxMealSamples)

NextMeal ==
    \/ MealFrame
    \/ MouseMove
    \/ MealSwitch
    \/ OpenHandSeen
    \/ EnterDemo
    \/ LeaveDemo
    \/ EatTimeout
    \/ CooldownTimeout
    \/ DemoTimeout

SpecMeal == Init /\ [][NextMeal]_vars

\* the cat's centre is within 40 px of the food
AtFood(g) ==
    DistSq(g.currentFood.x - g.catPos.x, g.currentFood.y - g.catPos.y)
        <= Sq(Px(40))

\* C23: the mode becomes eating only in a tick that finds food out and the
\* cat within 40 px of it; startEating runs once for a food item, so its
\* timeout is the only one pending, due eatingDuration later; and the
\* timeout's callback finds that item, removes it, clears isEating and
\* sets the mode idle.
OneMealPerFood ==
    [][/\ (catState # "eating" /\ catState' = "eating")
            => (/\ MealFrame
                /\ LET g == AtUpdate
                   IN ~g.demoMode /\ ~g.isResting /\ Eating(g) /\ AtFood(g))
       /\ (Len(eatTimers') > Len(eatTimers))
            => (/\ eatTimers = << >>
                /\ catState # "eating" /\ catState' = "eating"
                /\ Head(eatTimers').due = eatingDuration - Step)
       /\ EatTimeout
            => (/\ isEating /\ currentFood # NoFood
                /\ ~isEating' /\ currentFood' = NoFood
                /\ catState' = "idle")]_vars

---------------------------------------------------------------------------
(* The rest threshold *)

\* the thresholds the constructor can draw
FirstThresholds == {firstThreshold(r) : r \in 0..(Thousandths - 1)}

\* C24: the rest threshold is drawn from one range at construction and at
\* the end of every rest: whatever it is, the constructor could have drawn
\* it.
ThresholdFromOneRange == maxPouncesBeforeRest \in FirstThresholds

---------------------------------------------------------------------------
(* The derived mood *)

\* the mood by the cat's speed and the square of the centre distance
MoodOf(speed, distSq) ==
    IF 2 * speed < Px(1) THEN "idle"
    ELSE IF speed > Px(8) \/ distSq < Sq(Px(100)) THEN "excited"
    ELSE IF speed > Px(2) THEN "running"
    ELSE "curious"

\* update() gets to updateCatState: no branch before the capture test is
\* taken, no capture is registered and the cat is not preparing to pounce
ReachesMood(g) ==
    /\ ReachesCaptureTest(g)
    /\ ~Caught(g)
    /\ ~preparePounce(g).preparingPounce

\* C25: a tick that gets to the normal classification sets the mode by the
\* cat's speed and the centre distance alone.
MoodBySpeedAndDistance ==
    [][CameraFrame =>
         LET g == AtUpdate
         IN ReachesMood(g)
              => catState' = MoodOf(catSpeed',
                                    DistSq(g.yarnPos.x - g.catPos.x,
                                           g.yarnPos.y - g.catPos.y))]_vars

---------------------------------------------------------------------------
(* Setting the mode *)

\* C26: but for the demo panel, no tick and no callback calls setCatState
\* with the mode the cat is in already.
ModeNeverSetAgain == [][~DemoOverride => ~obs'.repeated]_vars

---------------------------------------------------------------------------
(* The preparing flag *)

\* update() finds the ball at or beyond pounceDistance from the nose and
\* gets to the code that prepares the pounce
BallBeyondPounceDistance(g) ==
    /\ ReachesCaptureTest(g)
    /\ ~Caught(g)
    /\ NoseDistSq(g.catPos, g.yarnPos) >= Sq(Px(pounceDistance))

---------------------------------------------------------------------------
(* The tick in demo mode *)

\* C28: while demo mode is on, update() changes nothing of the cat:
\* position, velocity, mode, the pouncing, resting, preparing and eating
\* flags, both capture counts and the times of the last capture and of the
\* rest are what the tick found.
TickSuspendedInDemoMode ==
    [][(DemoFrame /\ demoMode) =>
         LET g == elapse(AtUpdate, Step)
         IN /\ catPos' = g.catPos
            /\ catVelocity' = g.catVelocity
            /\ catSpeed' = g.catSpeed
            /\ catState' = g.catState
            /\ isPouncing' = g.isPouncing
            /\ isResting' = g.isResting
            /\ preparingPounce' = g.preparingPounce
            /\ isEating' = g.isEating
            /\ pounceCount' = g.pounceCount
            /\ totalPounces' = g.totalPounces
            /\ lastPounceTime' = g.lastPounceTime
            /\ restStartTime' = g.restStartTime]_vars

\* demo mode shows the pounce and a tick has run since the replay was
\* scheduled, with the ball where the cat's nose would reach it
TickedInDemoMode ==
    /\ demoMode /\ demoState = "pouncing"
    /\ demoTimers # << >>
    /\ Head(demoTimers).due < demoReplayDelay
    /\ NoseDistSq(catPos, yarnPos) < Sq(Px(pounceDistance))

---------------------------------------------------------------------------
(* The pounce trajectory *)

\* the trajectory a at the start and at the end of its duration
AtProgress0(a) == animatePounce([a EXCEPT !.startTime = now])
AtProgress1(a) == animatePounce([a EXCEPT !.startTime = now - pounceDuration])

\* C29: the trajectory of a pounce starts where the cat is when the capture
\* is registered and leads min(70, centre distance) px straight toward the
\* ball as it lies then, so not beyond it; at progress 0 the trajectory
\* gives its start and at progress 1 its end (the arc term is 0 at both),
\* and the callback that finds the duration over puts the cat at that end.
LeapEndsShortOfBall ==
    /\ [][(ArcFrame /\ totalPounces' = totalPounces + 1) =>
            LET g == AtUpdate
                a == pounceAnims'[Len(pounceAnims')]
                dx == g.yarnPos.x - g.catPos.x
                dy == g.yarnPos.y - g.catPos.y
                distance == Sqrt(DistSq(dx, dy))
                leap == Min(Px(70), distance)
            IN /\ a.start = g.catPos
               /\ a.target = Pos(g.catPos.x + Fix(dx * leap, distance),
                                 g.catPos.y + Fix(dy * leap, distance))
               /\ DistSq(a.target.x - a.start.x, a.target.y - a.start.y)
                     <= DistSq(dx, dy)
               /\ Along(Pos(dx, dy), a.start, a.target) > 0]_vars
    /\ [](\A i \in DOMAIN pounceAnims :
             /\ AtProgress0(pounceAnims[i]) = pounceAnims[i].start
             /\ AtProgress1(pounceAnims[i]) = pounceAnims[i].target)
    /\ [][ArcFrame =>
            \A i \in DOMAIN pounceAnims :
               (i = Len(pounceAnims) /\ now - pounceAnims[i].startTime >= pounceDuration)
                 => AtUpdate.catPos = pounceAnims[i].target]_vars

\* a pounce is at the end of its duration and its leap is shorter than 70 px
LeapShorterThanCap ==
    /\ pounceAnims # << >>
    /\ now - pounceAnims[1].startTime = pounceDuration
    /\ DistSq(pounceAnims[1].target.x - pounceAnims[1].start.x,
              pounceAnims[1].target.y - pounceAnims[1].start.y) < Sq(Px(69))

---------------------------------------------------------------------------
(* Degenerate distances: the player puts the ball on the cat's centre, or  *)
(* an open hand puts the food there.                                       *)

MaxCentreCaptures == 1
MaxCentreSwitches == 1
MaxCentreSamples == 1

\* where the cat's centre is when the callbacks of the coming refresh have
\* run
CentrePoint == runAnimations(Enter(This)).catPos

\* the pointer moves onto the cat's centre (mousemove, touchmove)
HoldAtCentre ==
    /\ controlMode = "mouse"
    /\ CentrePoint # lastMousePos
    /\ Becomes(handleMouseMove(Enter(This), CentrePoint.x, CentrePoint.y))
    /\ UNCHANGED <<clicks, handResults>>

\* the hand tracker reports an open hand with its palm over the cat's centre
PalmAtCentre == HandSample(OpenHand(CentrePoint), MaxCentreSamples)

CentreFrame == Refresh(MaxCentreCaptures)

CentreSwitch == Switch(MaxCentreSwitches)

NextCentre ==
    \/ CentreFrame
    \/ MouseMove
    \/ HoldAtCentre
    \/ CentreSwitch
    \/ PalmAtCentre
    \/ EatTimeout
    \/ CooldownTimeout

SpecCentre == Init /\ [][NextCentre]_vars

\* C30: no direction is normalised with a distance of 0: not in steering,
\* not in the walk to the food, not in the pounce target, the centre
\* distance being positive whenever a capture is registered; and a tick that
\* finds the ball on the cat's centre leaves the cat where it is and lets
\* its velocity decay.
NoDivisionByZero ==
    /\ [](~obs.dividedByZero)
    /\ [][CentreFrame =>
            LET g == AtUpdate
            IN /\ (ReachesCaptureTest(g) /\ Caught(g))
                    => DistSq(g.yarnPos.x - g.catPos.x,
                              g.yarnPos.y - g.catPos.y) > 0
               /\ (ReachesCaptureTest(g) /\ g.yarnPos = g.catPos)
                    => (/\ catPos' = keepWithinBounds(g).catPos
                        /\ catVelocity' = Pos(Fix(g.catVelocity.x * 9, 10),
                                              Fix(g.catVelocity.y * 9, 10)))
               /\ (~g.demoMode /\ ~g.isResting /\ Eating(g)
                     /\ g.currentFood = g.catPos)
                    => catPos' = g.catPos]_vars

\* the ball lies on the centre of a moving cat, a tick has run since it was
\* put there, and the cat has stayed
StayedUnderBall ==
    /\ ~demoMode /\ ~isResting /\ ~isPouncing /\ ~Eating(This)
    /\ yarnPos = catPos
    /\ lastMouseTime < now
    /\ catVelocity # Pos(0, 0)

---------------------------------------------------------------------------
(* The clock set back.  Date.now() follows the system clock, which an      *)
(* adjustment can set back while a pounce is in flight; the timeouts and   *)
(* the display's refreshes run on regardless.                              *)

\* Date.now() reads ms less than it did: every recorded timestamp lies ms
\* later against it; what lies beyond its horizon stays there
setBack(g, ms) ==
    LET Later(t, horizon) == IF t = NoTime \/ t = -horizon THEN t ELSE t + ms
    IN [g EXCEPT
          !.lastMouseTime = Later(@, MouseHorizon),
          !.lastPounceTime = Later(@, PounceHorizon),
          !.restStartTime = Later(@, RestHorizon),
          !.lastCapture = Later(@, PounceHorizon),
          !.pounceAnims =
              [i \in DOMAIN @ |->
                  [@[i] EXCEPT !.startTime = Later(@, PounceHorizon)]]]

\* the clock is set back while a trajectory is pending and no timestamp
\* lies ahead of it
ClockSetBack ==
    /\ pounceAnims # << >>
    /\ \A i \in DOMAIN pounceAnims : pounceAnims[i].startTime <= now
    /\ lastPounceTime <= now
    /\ Becomes(setBack(This, Setback))
    /\ UNCHANGED <<clicks, handResults>>

ClockFrame == Refresh(MaxClockCaptures)

NextClock ==
    \/ ClockFrame
    \/ MouseMove
    \/ ClockSetBack

SpecClock == Init /\ [][NextClock]_vars

\* progress = Math.min(elapsed / pounceDuration, 1), in ms of the duration
progress(a) == Min(now - a.startTime, pounceDuration)

\* C31: whatever the clock does between the capture and the animation
\* frames, the progress of a pounce lies in [0, 1], negative elapsed time
\* counting as none: the callback puts the cat on the leap's line between
\* its start and its end, not behind the start.
ProgressWithinUnit ==
    [][(ClockFrame /\ pounceAnims # << >>) =>
          LET a == pounceAnims[Len(pounceAnims)]
              Between(v, p, q) == (p <= v /\ v <= q) \/ (q <= v /\ v <= p)
          IN /\ 0 <= progress(a) /\ progress(a) <= pounceDuration
             /\ Between(AtUpdate.catPos.x, a.start.x, a.target.x)]_vars

---------------------------------------------------------------------------
(* The chase speed.  The cat stands where the constructor puts it, awake   *)
(* or at the start of a rest; the ball lies to its right at one of         *)
(* Distances and the pointer has come there at one of InputSpeeds.  One    *)
(* steering step is taken with the speed calculateChaseSpeed gives.        *)

\* pointer speeds: every whole px/frame up to MaxInputSpeed, and just
\* above 10
InputSpeeds == {Px(i) : i \in 0..MaxInputSpeed} \cup {Px(10) + 1}

\* centre distances: every DistanceGrain px up to the window's edge, and
\* next to the thresholds 150 and 300
Distances ==
    {Px(DistanceGrain * i) : i \in 0..(400 \div DistanceGrain)}
        \cup {Px(150) - 1, Px(150), Px(150) + 1, Px(300) - 1, Px(300), Px(300) + 1}

InitSpeed ==
    /\ \E s \in InputSpeeds, d \in Distances, resting \in BOOLEAN :
        LET g == [constructor(0) EXCEPT !.mouseSpeed = s]
            g1 == [g EXCEPT !.yarnPos = Pos(g.catPos.x + d, g.catPos.y)]
        IN Is(IF resting THEN startResting(g1) ELSE g1)
    /\ clicks = 0
    /\ handResults = 0

\* the steering step of update(), from a standing start
ChaseStep ==
    /\ catVelocity = Pos(0, 0)
    /\ Becomes(steer(Enter(This)))
    /\ UNCHANGED <<clicks, handResults>>

NextSpeed == ChaseStep

SpecSpeed == InitSpeed /\ [][NextSpeed]_vars

\* C32: for every pointer speed and centre distance the chase speed lies in
\* [0, 22]: it is 7, plus 0.4 times the pointer speed when that exceeds 10,
\* times 1.8 when the distance is under 150 or times 0.9 when it is over
\* 300, capped at 22; and it is 0 while the cat rests.  Beyond the stop
\* radius the cat's velocity moves a tenth of the way to that speed.
ChaseSpeedWithinCap ==
    [][ChaseStep =>
          LET d == yarnPos.x - catPos.x
              speed == calculateChaseSpeed(This, Sq(d))
              faster == IF mouseSpeed > Px(10)
                        THEN Px(7) + Fix(mouseSpeed * 4, 10) ELSE Px(7)
              scaled == IF d < Px(150) THEN Fix(faster * 18, 10)
                        ELSE IF d > Px(300) THEN Fix(faster * 9, 10)
                        ELSE faster
          IN /\ 0 <= speed /\ speed <= Px(22)
             /\ isResting => speed = 0
             /\ ~isResting => speed = (IF scaled > Px(22) THEN Px(22) ELSE scaled)
             /\ d > Px(30) => catVelocity' = Pos(Fix(speed, 10), 0)]_vars

\* a fast pointer near the cat: the step was taken at the capped speed
SteppedAtCap ==
    /\ ~isResting
    /\ mouseSpeed > Px(10)
    /\ yarnPos.x - catPos.x < Px(150)
    /\ catVelocity = Pos(Fix(Px(22), 10), 0)

---------------------------------------------------------------------------
(* Feeding.  The control mode is switched to the camera, the hand opens    *)
(* and closes in turn (a result that repeats the last one changes          *)
(* nothing) and stays open as long as food lies in it, the timeouts run    *)
(* and the display refreshes.                                              *)

FoodFrame == Refresh(MaxFoodCaptures)

FoodSwitch == Switch(MaxFoodSwitches)

HandOpens ==
    /\ ~isOpenHand
    /\ \E p \in PalmPoints : HandSample(OpenHand(p), MaxFoodSamples)

HandCloses ==
    /\ isOpenHand
    /\ currentFood = NoFood
    /\ HandSample(NoHand, MaxFoodSamples)

NextFood ==
    \/ FoodFrame
    \/ MouseMove
    \/ FoodSwitch
    \/ HandOpens
    \/ HandCloses
    \/ EatTimeout
    \/ CooldownTimeout

SpecFood == Init /\ [][NextFood]_vars

\* C33: two successive food spawns are at least 3000 ms apart: food is
\* spawned only when the cooldown timeout of every earlier spawn, set to
\* 3000 ms, has run; and spawnFood creates no food while a food item
\* exists, while eating is in progress or while the cooldown is active: it
\* then changes no state.
SpawnsCooledDown ==
    /\ []((currentFood # NoFood \/ isEating \/ foodSpawnCooldown)
            => \A p \in PalmPoints : spawnFood(This, p.x, p.y) = This)
    /\ [][(currentFood = NoFood /\ currentFood' # NoFood)
            => /\ cooldownTimers = << >>
               /\ ~isEating /\ ~foodSpawnCooldown
               /\ Len(cooldownTimers') = 1
               /\ cooldownTimers'[1].due = foodSpawnDelay]_vars
    /\ [][(HandOpens
             /\ (currentFood # NoFood \/ isEating \/ foodSpawnCooldown))
            => UNCHANGED <<currentFood, isEating, foodSpawnCooldown,
                           cooldownTimers, eatTimers, catState>>]_vars

\* the hand has closed after the first meal and opened again, and the
\* second food item has just been put out
SecondFoodOut ==
    /\ handResults >= 3
    /\ isOpenHand
    /\ currentFood # NoFood
    /\ cooldownTimers # << >>
    /\ cooldownTimers[1].due = foodSpawnDelay

\* C34: at most one food item exists: the food that lies out is not
\* replaced by another, it only goes; and isEating is true exactly when
\* there is food (spawnFood sets the two together, finishEating clears them
\* together).
OneFoodWhileEating ==
    /\ [](isEating <=> currentFood # NoFood)
    /\ [][currentFood # NoFood => currentFood' \in {currentFood, NoFood}]_vars
    /\ [][currentFood' # currentFood => isEating' # isEating]_vars

\* the cat is at the food and eats
MealInProgress ==
    /\ catState = "eating"
    /\ isEating
    /\ currentFood # NoFood
    /\ eatTimers # << >>

---------------------------------------------------------------------------
(* The capture counters *)

\* C35: totalPounces never decreases and is never reset: it changes only by
\* +1, in a tick that registers a capture; rest entry and exit, feeding,
\* and the demo override with its "pouncing" state leave it alone; and
\* pounceCount <= totalPounces throughout.
TotalNeverReset ==
    /\ [](pounceCount <= totalPounces)
    /\ [][totalPounces' # totalPounces =>
            /\ totalPounces' = totalPounces + 1
            /\ Frame
            /\ ReachesCaptureTest(AtUpdate) /\ Caught(AtUpdate)
            /\ isPouncing' /\ ~isResting' /\ ~demoMode']_vars
    /\ [][(\/ isResting' # isResting
           \/ isEating' # isEating
           \/ demoMode \/ demoMode'
           \/ EatTimeout \/ CooldownTimeout \/ RestTimeout \/ DemoTimeout)
            => totalPounces' = totalPounces]_vars

\* the rest is over and the fatigue counter has started again from 0; the
\* total stands where it stood
TotalKeptThroughRest ==
    /\ clicks = 0
    /\ ~isResting /\ ~isPouncing
    /\ pounceCount = 0
    /\ totalPounces >= 4

---------------------------------------------------------------------------
(* The flags and the mode *)

\* C36: outside demo mode the flags agree with the mode: isPouncing implies
\* the mode "pouncing", isResting implies the mode "resting" and
\* preparingPounce implies the mode "preparing-pounce".
FlagsAgreeWithMode ==
    ~demoMode =>
        /\ isPouncing => catState = "pouncing"
        /\ isResting => catState = "resting"
        /\ preparingPounce => catState = "preparing-pounce"

---------------------------------------------------------------------------
(* The approach to a ball that lies still, with the display refreshing for *)
(* ever: requestAnimationFrame calls back as long as the page is shown.    *)

SpecApproachFair == SpecApproach /\ WF_vars(ApproachFrame)

\* C37: with the ball lying still, ticks that keep coming, the clock
\* advancing and no demo or feeding command, the cat does not stay in
\* "preparing-pounce" for ever: from every state with preparingPounce set it
\* eventually registers a capture (the mode "pouncing") or returns to the
\* classification of its mood.
LeavesPreparingPounce ==
    preparingPounce ~> (catState = "pouncing" \/ ~preparingPounce)

---------------------------------------------------------------------------
(* The play area *)

\* C38: outside demo mode the cat stays inside the play area:
\* 70 <= catPos.x <= width - 70 and 120 <= catPos.y <= height - 120, during
\* and at the end of a pounce and during the approach to food as well.
CatInsidePlayArea ==
    ~demoMode =>
        /\ Px(70) <= catPos.x /\ catPos.x <= Px(innerWidth) - Px(70)
        /\ Px(120) <= catPos.y /\ catPos.y <= Px(innerHeight) - Px(120)

---------------------------------------------------------------------------
(* The demo replay timeout *)

\* C39: at most one replay timeout of the demo pounce is pending, whatever
\* the demo buttons clicked and the timeouts run, and none is pending once
\* demo mode is left; the replay sets the next one; and a replay callback
\* changes nothing unless demo mode is on with the demo state "pouncing".
OneReplayPending ==
    /\ [](Len(demoTimers) <= 1)
    /\ [](~demoMode => demoTimers = << >>)
    /\ [](~(demoMode /\ demoState = "pouncing") => playPounceDemo(This) = This)
    /\ [][LeaveDemo => demoTimers' = << >>]_vars
    /\ [][DemoTimeout =>
            IF demoMode /\ demoState = "pouncing"
            THEN /\ Len(demoTimers') = 1
                 /\ demoTimers'[1].due = demoReplayDelay
            ELSE /\ demoTimers' = Tail(demoTimers)
                 /\ UNCHANGED <<catState, catPos, demoMode, demoState,
                                demoTimeout>>]_vars

\* the demo button "pouncing" has been clicked twice running: the timeout
\* of the first click is cleared and that of the second is pending
PouncingClickedTwice ==
    /\ demoMode /\ demoState = "pouncing"
    /\ clicks = 2
    /\ obs.repeated
    /\ Len(demoTimers) = 1
    /\ demoTimers[1].due = demoReplayDelay

=============================================================================
